---- MODULE Spec2Model ----
(***************************************************************************)
(* Model of src/api.py: the LookingUp API gateway.                         *)
(*                                                                         *)
(* The Store (Supabase tables api_keys, subscriptions, usage_logs,         *)
(* daily_usage) and the Verifier (app.EmailVerifier) are external.  Every  *)
(* call the handlers make to one of them is one step of a request; a call  *)
(* either returns or raises, and an exception is handled by the try/except *)
(* of the function that made the call.                                     *)
(*                                                                         *)
(* Request bodies are well-typed (pydantic has accepted them) and the      *)
(* X-API-Key header is present: the framework's own 422 answers are not    *)
(* part of this model.                                                     *)
(*                                                                         *)
(* Spec follows one request from its arrival to its response, from a Store *)
(* that is either unused or already holds usage of the day, while the      *)
(* clock may advance at any step.                                          *)
(***************************************************************************)
EXTENDS Integers, Sequences, FiniteSets, TLC

VARIABLES
    api_keys,        \* Store table api_keys: sequence of rows
    subscriptions,   \* Store table subscriptions: sequence of rows
    usage_logs,      \* Store table usage_logs: sequence of rows (audit log)
    daily_usage,     \* Store table daily_usage: sequence of rows, one per (user_id, date)
    now,             \* the UTC clock (datetime.utcnow()), in ticks
    req              \* the requests: one record per request slot

vars == <<api_keys, subscriptions, usage_logs, daily_usage, now, req>>

----------------------------------------------------------------------------
(* Bounds of the model *)

NReq == 1            \* request slots
MaxEmails == 2       \* length of the short bulk lists, and iterations explored of a long one
MaxCandidates == 3   \* length of the longest generated pattern list
MaxNow == 1          \* last tick of the clock
TicksPerDay == 1     \* ticks in one UTC day

(* Program constant: the batch limit of /verify/bulk *)
BulkLimit == 1000

Reqs == 1..NReq

\* Python's None, and a present value: optional values are sequences of length 0 or 1
None == <<>>
Some(x) == <<x>>

----------------------------------------------------------------------------
(* Credentials and their digests *)

Credentials ==
    { "lk_live_u1", "lk_live_u2", "lk_live_u3", "lk_live_u4", "lk_live_u5",
      "lk_live_u6", "lk_live_u1_old", "lk_unknown" }

\* hashlib.sha256(x_api_key.encode()).hexdigest(), tabulated for the credentials of the model
Sha256(x) ==
    CASE x = "lk_live_u1"     -> "2b89ea370f86232f3a629c6649cf68c20b0a62ead0f886be5cd577177207d87e"
      [] x = "lk_live_u2"     -> "a6bb286223b4f341419df590db57faeb2f7203b48cf1199d177c41ace7a88b63"
      [] x = "lk_live_u3"     -> "7cba8a7853e28e2216f607f5acf2eee0e6654403f6fc27d2ccaea35b21a3c6d5"
      [] x = "lk_live_u4"     -> "93a193ede59c3ddc13378b61b6d406c202d3b42fa2bf700935312cb7dba89bfd"
      [] x = "lk_live_u5"     -> "1882d9f969d839626d99ea8815a3b3cc72c7752ac7560540f08eafe78b1353d6"
      [] x = "lk_live_u6"     -> "84f49557c4dc3e208b434a5efca2c504f608183c3e3863a8733d45635343b009"
      [] x = "lk_live_u1_old" -> "957100e8b3e30e2c7d389c4eb85bf6630aea5c697801f67ead9bdfe17c67915d"
      [] x = "lk_unknown"     -> "f2fa99a64027e80c4f6f72a70bed57de7ca343495faf5d9f2166180002707379"

----------------------------------------------------------------------------
(* The Store's initial content.  Key ids are taken to be unique and a user *)
(* to have at most one subscription row (api_keys.id and                   *)
(* subscriptions.user_id are keys of their tables).  Between them the rows *)
(* cover every combination of: key known or not, key active or not,        *)
(* subscription present or not, plan pro or not, status active, trial or   *)
(* other.                                                                  *)

KeyRow(id, cred, active, user) ==
    [id |-> id, key_hash |-> Sha256(cred), is_active |-> active,
     user_id |-> user, last_used_at |-> None]

InitApiKeys ==
    << KeyRow(11, "lk_live_u1", TRUE, 1),
       KeyRow(12, "lk_live_u2", TRUE, 2),
       KeyRow(13, "lk_live_u3", TRUE, 3),
       KeyRow(14, "lk_live_u4", TRUE, 4),
       KeyRow(15, "lk_live_u5", TRUE, 5),
       KeyRow(16, "lk_live_u6", TRUE, 6),
       KeyRow(17, "lk_live_u1_old", FALSE, 1) >>

SubRow(user, plan, status) ==
    [user_id |-> user, plan_type |-> plan, status |-> status]

InitSubscriptions ==
    << SubRow(1, "pro", "active"),
       SubRow(2, "pro", "trial"),
       SubRow(3, "pro", "canceled"),
       SubRow(4, "free", "active"),
       SubRow(5, "free", "canceled") >>

Users == 1..6

----------------------------------------------------------------------------
(* Sequence helpers *)

RECURSIVE Filter(_, _)
\* the rows of a table that are in the set keep, in table order
Filter(rows, keep) ==
    IF rows = <<>> THEN <<>>
    ELSE IF Head(rows) \in keep
         THEN <<Head(rows)>> \o Filter(Tail(rows), keep)
         ELSE Filter(Tail(rows), keep)

Range(s) == { s[i] : i \in 1..Len(s) }

----------------------------------------------------------------------------
(* The clock *)

\* datetime.utcnow().isoformat(): the timestamp of tick t
IsoTimestamp(t) == Some(t)

\* datetime.utcnow().date() and the Store's current date: the UTC day of tick t
DateOf(t) == t \div TicksPerDay

----------------------------------------------------------------------------
(* Store queries and writes *)

\* table('api_keys').select('*, users(*)').eq('key_hash', h).eq('is_active', True)
SelectActiveKey(keys, h) ==
    Filter(keys, { row \in Range(keys) : row.key_hash = h /\ row.is_active = TRUE })

\* table('subscriptions').select('*').eq('user_id', u)
SelectSubscriptions(subs, u) ==
    Filter(subs, { row \in Range(subs) : row.user_id = u })

\* table('api_keys').update({'last_used_at': ts}).eq('id', id)
UpdateLastUsed(keys, id, ts) ==
    [ k \in DOMAIN keys |->
        IF keys[k].id = id THEN [keys[k] EXCEPT !.last_used_at = ts] ELSE keys[k] ]

\* table('daily_usage').select('*').eq('user_id', u).eq('date', d)
SelectDailyUsage(usage, u, d) ==
    Filter(usage, { row \in Range(usage) : row.user_id = u /\ row.date = d })

\* The Store procedure increment_daily_usage(p_user_id, p_verify_count, p_find_count):
\* adds the deltas to the caller's row of the Store's current day, creating the row if
\* there is none; one atomic Store call.
IncrementDailyUsage(usage, params, d) ==
    IF SelectDailyUsage(usage, params.p_user_id, d) = <<>>
    THEN Append(usage,
                [user_id |-> params.p_user_id, date |-> d,
                 verify_count |-> params.p_verify_count,
                 find_count |-> params.p_find_count,
                 total_count |-> params.p_verify_count + params.p_find_count])
    ELSE [ k \in DOMAIN usage |->
             IF usage[k].user_id = params.p_user_id /\ usage[k].date = d
             THEN [usage[k] EXCEPT
                     !.verify_count = @ + params.p_verify_count,
                     !.find_count = @ + params.p_find_count,
                     !.total_count = @ + params.p_verify_count + params.p_find_count]
             ELSE usage[k] ]

----------------------------------------------------------------------------
(* verify_api_key: the checks *)

\* an exception: an HTTPException with its status code, or any other Exception
HTTPException(code, detail) ==
    [kind |-> "HTTPException", status_code |-> code, detail |-> detail]

Error(what) == [kind |-> "Exception", status_code |-> 0, detail |-> what]

\* no exception raised
Pass == [kind |-> "", status_code |-> 0, detail |-> ""]

\* "if not result.data: raise HTTPException(401)"
KeyCheck(data) ==
    IF data = <<>> THEN HTTPException(401, "Invalid API key") ELSE Pass

\* a variant that leaves out the check of the status
SubscriptionCheck_NoStatus(data) ==
    IF data = <<>>
    THEN HTTPException(403, "No active subscription")
    ELSE IF data[1].plan_type # "pro"
    THEN HTTPException(403, "API access requires Pro plan")
    ELSE Pass

\* a variant that checks the status before the plan
SubscriptionCheck_StatusFirst(data) ==
    IF data = <<>>
    THEN HTTPException(403, "No active subscription")
    ELSE IF data[1].status \notin {"active", "trial"}
    THEN HTTPException(403, "Subscription not active")
    ELSE IF data[1].plan_type # "pro"
    THEN HTTPException(403, "API access requires Pro plan")
    ELSE Pass

\* the three checks on sub_result, in the order of the code
SubscriptionCheck(data) ==
    IF data = <<>>
    THEN HTTPException(403, "No active subscription")
    ELSE IF data[1].plan_type # "pro"
    THEN HTTPException(403, "API access requires Pro plan")
    ELSE IF data[1].status \notin {"active", "trial"}
    THEN HTTPException(403, "Subscription not active")
    ELSE Pass

\* the dict verify_api_key returns
AuthContext(api_key_data, subscription) ==
    [user_id |-> api_key_data.user_id,
     api_key_id |-> api_key_data.id,
     subscription |-> subscription]

----------------------------------------------------------------------------
(* The except clauses: what leaves a function when e is raised in its try *)

\* a variant without "except HTTPException: raise"
VerifyApiKeyExcept_CatchAll(e) == HTTPException(500, e.detail)

\* verify_api_key: "except HTTPException: raise", then "except Exception as e: raise 500"
VerifyApiKeyExcept(e) ==
    IF e.kind = "HTTPException" THEN e ELSE HTTPException(500, e.detail)

\* verify_email: only "except Exception as e: raise 500"
VerifyEmailExcept(e) == HTTPException(500, e.detail)

\* verify_bulk: "except HTTPException: raise", then "except Exception as e: raise 500"
\* a variant without "except HTTPException: raise"
VerifyBulkExcept_CatchAll(e) == HTTPException(500, e.detail)

VerifyBulkExcept(e) ==
    IF e.kind = "HTTPException" THEN e ELSE HTTPException(500, e.detail)

\* find_email: "except HTTPException: raise", then "except Exception as e: raise 500"
\* a variant without "except HTTPException: raise"
FindEmailExcept_CatchAll(e) == HTTPException(500, e.detail)

FindEmailExcept(e) ==
    IF e.kind = "HTTPException" THEN e ELSE HTTPException(500, e.detail)

\* get_usage: only "except Exception as e: raise 500"
GetUsageExcept(e) == HTTPException(500, e.detail)

----------------------------------------------------------------------------
(* The Verifier (app.EmailVerifier): a black box.  Of a result the handlers *)
(* read smtp_verified and confidence_score and copy every field into the   *)
(* response; the fields they only copy are represented by email.           *)

Emails == { "a@x.com", "b@x.com" }

\* the order in which generate_email_patterns lists its candidates
AllPatterns ==
    << "ada.lovelace@x.com", "alovelace@x.com", "ada@x.com",
       "lovelace@x.com", "adalovelace@x.com", "a.lovelace@x.com" >>

Scores == { 80, 90 }

\* smtp_verified: Optional[bool]
TriState == { Some(TRUE), Some(FALSE), None }

\* what verifier.verify(email, ...) can return
VerifierResults(email) ==
    [ email : {email}, smtp_verified : TriState, confidence_score : Scores ]

\* what verifier.generate_email_patterns(first, last, domain) can return
PatternLists ==
    { [ k \in 1..n |-> [email |-> AllPatterns[k]] ] :
        n \in { m \in 0..MaxCandidates : m <= Len(AllPatterns) } }

\* the record of one call of verifier.verify: its arguments and what it returned
\* (None when it raised)
VerifierCall(email, check_smtp, check_catch_all, result) ==
    [email |-> email, check_smtp |-> check_smtp,
     check_catch_all |-> check_catch_all, result |-> result]

\* VerificationResponse(email=result.email, ...): a field-by-field copy of the result
VerificationResponse(result) ==
    [email |-> result.email,
     smtp_verified |-> result.smtp_verified,
     confidence_score |-> result.confidence_score]

----------------------------------------------------------------------------
(* Requests *)

Endpoints == { "verify", "bulk", "find", "usage" }

Body(email, emails, check_smtp, check_catch_all, first_name, last_name, domain) ==
    [email |-> email, emails |-> emails,
     check_smtp |-> check_smtp, check_catch_all |-> check_catch_all,
     first_name |-> first_name, last_name |-> last_name, domain |-> domain]

NoBody == Body("", <<>>, TRUE, TRUE, "", "", "")

\* a list of n copies of one address
LongList(n) == [ k \in 1..n |-> "a@x.com" ]

\* the lists of emails of the model: every list of at most MaxEmails addresses,
\* and the lists at and just over the batch limit
ShortLists == UNION { [ 1..n -> Emails ] : n \in 0..MaxEmails }

LongLists == { LongList(BulkLimit), LongList(BulkLimit + 1) }

\* the request bodies of an endpoint
Bodies(endpoint) ==
    CASE endpoint = "verify" ->
           { Body(e, <<>>, s, c, "", "", "") : e \in Emails, s \in BOOLEAN, c \in BOOLEAN }
      [] endpoint = "bulk" ->
           { Body("", es, s, c, "", "", "") : es \in ShortLists, s \in BOOLEAN, c \in BOOLEAN }
             \cup { Body("", es, TRUE, TRUE, "", "", "") : es \in LongLists }
      [] endpoint = "find" ->
           { Body("", <<>>, TRUE, TRUE, "Ada", "Lovelace", "x.com") }
      [] endpoint = "usage" ->
           { NoBody }

IdleReq ==
    [pc |-> "idle", endpoint |-> "", x_api_key |-> "", body |-> NoBody,
     api_key_data |-> None, subscription |-> None, auth |-> None,
     patterns |-> <<>>, i |-> 0, results |-> <<>>, best_result |-> None,
     calls |-> <<>>, logged |-> <<>>, rpc |-> <<>>, events |-> <<>>,
     raised |-> None, failed_at |-> "",
     status_code |-> 0, detail |-> "", response |-> <<>>]

\* the steps of verify_api_key
AuthPcs == { "auth_key", "auth_sub", "auth_touch" }

\* the steps that are one call of the Store
StorePcs == AuthPcs \cup { "log", "incr", "usage_read" }

\* the steps that are one call of the Verifier
VerifierPcs == { "verify", "bulk_loop", "find_gen", "find_loop" }

\* the steps that are a check made by the endpoint function itself
LocalPcs == { "bulk_check", "find_check" }

\* a variant of verify_email that increments the counter before it logs the usage
VerifyEmailSteps_IncrementFirst == << "verify", "incr", "log" >>

(* The statements of each endpoint function, in the order of its body *)
VerifyEmailSteps == << "verify", "log", "incr" >>
VerifyBulkSteps == << "bulk_check", "bulk_loop", "log", "incr" >>
FindEmailSteps == << "find_gen", "find_loop", "find_check", "log", "incr" >>
GetUsageSteps == << "usage_read" >>

StepsOf(endpoint) ==
    CASE endpoint = "verify" -> VerifyEmailSteps
      [] endpoint = "bulk"   -> VerifyBulkSteps
      [] endpoint = "find"   -> FindEmailSteps
      [] endpoint = "usage"  -> GetUsageSteps

\* the except clauses of the function the request is in
ExceptOf(rq, e) ==
    IF rq.pc \in AuthPcs THEN VerifyApiKeyExcept(e)
    ELSE CASE rq.endpoint = "verify" -> VerifyEmailExcept(e)
           [] rq.endpoint = "bulk"   -> VerifyBulkExcept(e)
           [] rq.endpoint = "find"   -> FindEmailExcept(e)
           [] rq.endpoint = "usage"  -> GetUsageExcept(e)

\* e is raised in the try of the function the request is in: the request ends with
\* the HTTPException that leaves the function
Raise(rq, e) ==
    LET out == ExceptOf(rq, e)
    IN  [rq EXCEPT !.pc = "done",
                   !.status_code = out.status_code,
                   !.detail = out.detail,
                   !.raised = Some(e),
                   !.failed_at = rq.pc,
                   !.events = IF rq.pc \in AuthPcs
                              THEN @ \o <<"auth_fail", "response">>
                              ELSE Append(@, "response")]

\* the request ends with a 200 and a response body
Return(rq, response) ==
    [rq EXCEPT !.pc = "done",
               !.status_code = 200,
               !.response = response,
               !.events = Append(@, "response")]

\* what the endpoint of the request returns
ResponseOf(rq) ==
    CASE rq.endpoint = "verify" -> <<VerificationResponse(rq.results[1])>>
      [] rq.endpoint = "bulk"   -> rq.results
      [] rq.endpoint = "find"   -> <<VerificationResponse(rq.best_result[1])>>
      [] rq.endpoint = "usage"  -> rq.response

RECURSIVE EnterStep(_, _)
\* control reaches statement k of the endpoint function: a loop over an empty
\* sequence is passed at once, and after the last statement the function returns
EnterStep(rq, k) ==
    LET steps == StepsOf(rq.endpoint)
    IN  IF k > Len(steps)
        THEN Return(rq, ResponseOf(rq))
        ELSE IF steps[k] = "bulk_loop" /\ rq.body.emails = <<>>
        THEN EnterStep(rq, k + 1)
        ELSE IF steps[k] = "find_loop" /\ rq.patterns = <<>>
        THEN EnterStep(rq, k + 1)
        ELSE [rq EXCEPT !.pc = steps[k], !.i = 1]

\* the statement at rq.pc is complete: control goes to the next one
Advance(rq) ==
    LET steps == StepsOf(rq.endpoint)
        k == CHOOSE j \in 1..Len(steps) : steps[j] = rq.pc
    IN  EnterStep(rq, k + 1)

TypeOK ==
    /\ now \in 0..MaxNow
    /\ DOMAIN req = Reqs
    /\ \A r \in Reqs :
         req[r].pc \in {"idle", "done"} \cup StorePcs \cup VerifierPcs \cup LocalPcs

----------------------------------------------------------------------------
(* The clock advances *)
Tick ==
    /\ now < MaxNow
    /\ now' = now + 1
    /\ UNCHANGED <<api_keys, subscriptions, usage_logs, daily_usage, req>>

\* the slot a new request takes: the first one, while no request has arrived
FreeSlot(r) == r = 1 /\ \A q \in Reqs : req[q].pc = "idle"

(* A request to an authenticated endpoint arrives *)
Start(r) ==
    /\ FreeSlot(r)
    /\ \E endpoint \in Endpoints, x_api_key \in Credentials :
         \E body \in Bodies(endpoint) :
           req' = [req EXCEPT ![r] =
                     [IdleReq EXCEPT !.pc = "auth_key",
                                     !.endpoint = endpoint,
                                     !.x_api_key = x_api_key,
                                     !.body = body]]
    /\ UNCHANGED <<api_keys, subscriptions, usage_logs, daily_usage, now>>

(* GET /: no dependency, no Store or Verifier call *)
Root(r) ==
    /\ FreeSlot(r)
    /\ req' = [req EXCEPT ![r] =
                 Return([IdleReq EXCEPT !.endpoint = "root"],
                        <<[message |-> "LookingUp API v1.0.0", docs |-> "/docs",
                           status |-> "operational"]>>)]
    /\ UNCHANGED <<api_keys, subscriptions, usage_logs, daily_usage, now>>

----------------------------------------------------------------------------
(* verify_api_key *)

(* A call of the Store raises: in verify_api_key and in every endpoint     *)
(* function the exception reaches "except Exception" and becomes a 500.    *)
StoreFails(r) ==
    /\ req[r].pc \in StorePcs
    /\ req' = [req EXCEPT ![r] = Raise(req[r], Error("store error"))]
    /\ UNCHANGED <<api_keys, subscriptions, usage_logs, daily_usage, now>>

(* key lookup and "if not result.data" *)
AuthLookupKey(r) ==
    /\ req[r].pc = "auth_key"
    /\ LET rq == req[r]
           data == SelectActiveKey(api_keys, Sha256(rq.x_api_key))
           exc == KeyCheck(data)
       IN  req' = [req EXCEPT ![r] =
                     IF exc # Pass
                     THEN Raise(rq, exc)
                     ELSE [rq EXCEPT !.api_key_data = Some(data[1]),
                                     !.pc = "auth_sub"]]
    /\ UNCHANGED <<api_keys, subscriptions, usage_logs, daily_usage, now>>

(* a variant that updates last_used_at before the checks on the subscription *)
AuthLookupSub_TouchFirst(r) ==
    /\ req[r].pc = "auth_sub"
    /\ LET rq == req[r]
           data == SelectSubscriptions(subscriptions, rq.api_key_data[1].user_id)
           exc == SubscriptionCheck(data)
       IN  /\ api_keys' = UpdateLastUsed(api_keys, rq.api_key_data[1].id, IsoTimestamp(now))
           /\ req' = [req EXCEPT ![r] =
                        IF exc # Pass
                        THEN Raise(rq, exc)
                        ELSE [rq EXCEPT !.subscription = Some(data[1]),
                                        !.pc = "auth_touch"]]
    /\ UNCHANGED <<subscriptions, usage_logs, daily_usage, now>>

(* subscription lookup and the three checks on it *)
AuthLookupSub(r) ==
    /\ req[r].pc = "auth_sub"
    /\ LET rq == req[r]
           data == SelectSubscriptions(subscriptions, rq.api_key_data[1].user_id)
           exc == SubscriptionCheck(data)
       IN  req' = [req EXCEPT ![r] =
                     IF exc # Pass
                     THEN Raise(rq, exc)
                     ELSE [rq EXCEPT !.subscription = Some(data[1]),
                                     !.pc = "auth_touch"]]
    /\ UNCHANGED <<api_keys, subscriptions, usage_logs, daily_usage, now>>

(* "Update last used", then the return of the context to the endpoint *)
AuthTouch(r) ==
    /\ req[r].pc = "auth_touch"
    /\ LET rq == req[r]
       IN  /\ api_keys' = UpdateLastUsed(api_keys, rq.api_key_data[1].id, IsoTimestamp(now))
           /\ req' = [req EXCEPT ![r] = EnterStep(
                        [rq EXCEPT !.auth = Some(AuthContext(rq.api_key_data[1],
                                                             rq.subscription[1])),
                                   !.events = Append(@, "auth_ok")], 1)]
    /\ UNCHANGED <<subscriptions, usage_logs, daily_usage, now>>

----------------------------------------------------------------------------
(* Usage recording: the rows and parameters the endpoint functions build *)

UsageLogRow(auth, operation_type, email_count) ==
    [user_id |-> auth.user_id, api_key_id |-> auth.api_key_id,
     operation_type |-> operation_type, email_count |-> email_count,
     success |-> TRUE]

\* the parameters of rpc('increment_daily_usage'); a parameter the caller leaves out is 0
RpcParams(auth, verify_count, find_count) ==
    [p_user_id |-> auth.user_id,
     p_verify_count |-> verify_count, p_find_count |-> find_count]

\* a variant that also passes p_find_count = 1
VerifyIncrement_BothCounters(auth) == RpcParams(auth, 1, 1)

\* verify_email: "Log usage" and "Increment daily usage"
VerifyUsageLog(auth) == UsageLogRow(auth, "verify", 1)
VerifyIncrement(auth) == RpcParams(auth, 1, 0)

\* a variant that counts the batch as one verification
BulkIncrement_OnePerBatch(auth, emails) == RpcParams(auth, 1, 0)

\* verify_bulk: "Log usage" and "Increment daily usage"
\* a variant that logs a batch as one item
BulkUsageLog_OneItem(auth, emails) == UsageLogRow(auth, "bulk_verify", 1)

BulkUsageLog(auth, emails) == UsageLogRow(auth, "bulk_verify", Len(emails))
BulkIncrement(auth, emails) == RpcParams(auth, Len(emails), 0)

\* find_email: "Log usage" and "Increment daily usage"
FindUsageLog(auth) == UsageLogRow(auth, "find", 1)
\* a variant that counts a find as a verification
FindIncrement_AsVerify(auth) == RpcParams(auth, 1, 0)

FindIncrement(auth) == RpcParams(auth, 0, 1)

\* the row the endpoint of the request inserts into usage_logs
UsageLogOf(rq) ==
    CASE rq.endpoint = "verify" -> VerifyUsageLog(rq.auth[1])
      [] rq.endpoint = "bulk"   -> BulkUsageLog(rq.auth[1], rq.body.emails)
      [] rq.endpoint = "find"   -> FindUsageLog(rq.auth[1])

\* the parameters the endpoint of the request passes to increment_daily_usage
IncrementOf(rq) ==
    CASE rq.endpoint = "verify" -> VerifyIncrement(rq.auth[1])
      [] rq.endpoint = "bulk"   -> BulkIncrement(rq.auth[1], rq.body.emails)
      [] rq.endpoint = "find"   -> FindIncrement(rq.auth[1])

----------------------------------------------------------------------------
(* The steps shared by /verify, /verify/bulk and /find *)

(* a variant in which verify_bulk passes over an email whose verification raises *)
VerifierFails_SkipItem(r) ==
    /\ req[r].pc \in VerifierPcs
    /\ req[r].pc = "bulk_loop" => req[r].i <= MaxEmails
    /\ LET rq == req[r]
           email == CASE rq.pc = "verify"    -> rq.body.email
                      [] rq.pc = "bulk_loop" -> rq.body.emails[rq.i]
                      [] rq.pc = "find_loop" -> rq.patterns[rq.i].email
                      [] rq.pc = "find_gen"  -> ""
           smtp == IF rq.pc = "find_loop" THEN TRUE ELSE rq.body.check_smtp
           catch == IF rq.pc = "find_loop" THEN TRUE ELSE rq.body.check_catch_all
           called == IF rq.pc = "find_gen" THEN rq
                     ELSE [rq EXCEPT
                             !.calls = Append(@, VerifierCall(email, smtp, catch, None)),
                             !.events = Append(@, "verifier")]
       IN  req' = [req EXCEPT ![r] =
                     IF rq.pc = "bulk_loop"
                     THEN IF rq.i = Len(rq.body.emails)
                          THEN Advance(called)
                          ELSE [called EXCEPT !.i = @ + 1]
                     ELSE Raise(called, Error("verifier error"))]
    /\ UNCHANGED <<api_keys, subscriptions, usage_logs, daily_usage, now>>

(* A call of the Verifier raises: "except Exception" makes it a 500 *)
VerifierFails(r) ==
    /\ req[r].pc \in VerifierPcs
    /\ req[r].pc = "bulk_loop" => req[r].i <= MaxEmails
    /\ LET rq == req[r]
           email == CASE rq.pc = "verify"    -> rq.body.email
                      [] rq.pc = "bulk_loop" -> rq.body.emails[rq.i]
                      [] rq.pc = "find_loop" -> rq.patterns[rq.i].email
                      [] rq.pc = "find_gen"  -> ""
           smtp == IF rq.pc = "find_loop" THEN TRUE ELSE rq.body.check_smtp
           catch == IF rq.pc = "find_loop" THEN TRUE ELSE rq.body.check_catch_all
           called == IF rq.pc = "find_gen" THEN rq
                     ELSE [rq EXCEPT
                             !.calls = Append(@, VerifierCall(email, smtp, catch, None)),
                             !.events = Append(@, "verifier")]
       IN  req' = [req EXCEPT ![r] = Raise(called, Error("verifier error"))]
    /\ UNCHANGED <<api_keys, subscriptions, usage_logs, daily_usage, now>>

(* "Log usage": the insert into usage_logs *)
LogUsage(r) ==
    /\ req[r].pc = "log"
    /\ usage_logs' = Append(usage_logs, UsageLogOf(req[r]))
    /\ req' = [req EXCEPT ![r] =
                 Advance([@ EXCEPT !.logged = Append(@, UsageLogOf(req[r])),
                                   !.events = Append(@, "audit")])]
    /\ UNCHANGED <<api_keys, subscriptions, daily_usage, now>>

(* a variant that makes the rpc twice *)
IncrementUsage_Twice(r) ==
    /\ req[r].pc = "incr"
    /\ LET rq == req[r]
           params == IncrementOf(rq)
       IN  /\ daily_usage' = IncrementDailyUsage(
                                IncrementDailyUsage(daily_usage, params, DateOf(now)),
                                params, DateOf(now))
           /\ req' = [req EXCEPT ![r] =
                        Advance([rq EXCEPT !.rpc = Append(@, params),
                                           !.events = Append(@, "incr")])]
    /\ UNCHANGED <<api_keys, subscriptions, usage_logs, now>>

(* "Increment daily usage": the rpc *)
IncrementUsage(r) ==
    /\ req[r].pc = "incr"
    /\ LET rq == req[r]
           params == IncrementOf(rq)
       IN  /\ daily_usage' = IncrementDailyUsage(daily_usage, params, DateOf(now))
           /\ req' = [req EXCEPT ![r] =
                        Advance([rq EXCEPT !.rpc = Append(@, params),
                                           !.events = Append(@, "incr")])]
    /\ UNCHANGED <<api_keys, subscriptions, usage_logs, now>>

----------------------------------------------------------------------------
(* verify_email *)

VerifyCall(r) ==
    /\ req[r].pc = "verify"
    /\ LET rq == req[r]
       IN  \E result \in VerifierResults(rq.body.email) :
             req' = [req EXCEPT ![r] = Advance(
                       [rq EXCEPT
                          !.calls = Append(@, VerifierCall(rq.body.email,
                                                           rq.body.check_smtp,
                                                           rq.body.check_catch_all,
                                                           Some(result))),
                          !.events = Append(@, "verifier"),
                          !.results = <<result>>])]
    /\ UNCHANGED <<api_keys, subscriptions, usage_logs, daily_usage, now>>

----------------------------------------------------------------------------
(* verify_bulk *)

\* a variant that compares with >= instead of >
BulkTooLarge_AtLimit(emails) == Len(emails) >= BulkLimit

\* "if len(request.emails) > 1000"
BulkTooLarge(emails) == Len(emails) > BulkLimit

(* the length check *)
BulkCheck(r) ==
    /\ req[r].pc = "bulk_check"
    /\ LET rq == req[r]
       IN  req' = [req EXCEPT ![r] =
                     IF BulkTooLarge(rq.body.emails)
                     THEN Raise(rq, HTTPException(400, "Maximum 1000 emails per request"))
                     ELSE Advance(rq)]
    /\ UNCHANGED <<api_keys, subscriptions, usage_logs, daily_usage, now>>

(* a variant that puts each result at the front of the list *)
BulkIter_Prepend(r) ==
    /\ req[r].pc = "bulk_loop"
    /\ req[r].i <= MaxEmails
    /\ LET rq == req[r]
           email == rq.body.emails[rq.i]
       IN  \E result \in VerifierResults(email) :
             LET called == [rq EXCEPT
                              !.calls = Append(@, VerifierCall(email,
                                                               rq.body.check_smtp,
                                                               rq.body.check_catch_all,
                                                               Some(result))),
                              !.events = Append(@, "verifier"),
                              !.results = <<VerificationResponse(result)>> \o @]
             IN  req' = [req EXCEPT ![r] =
                           IF rq.i = Len(rq.body.emails)
                           THEN Advance(called)
                           ELSE [called EXCEPT !.i = @ + 1]]
    /\ UNCHANGED <<api_keys, subscriptions, usage_logs, daily_usage, now>>

(* one iteration of "for email in request.emails" *)
BulkIter(r) ==
    /\ req[r].pc = "bulk_loop"
    /\ req[r].i <= MaxEmails
    /\ LET rq == req[r]
           email == rq.body.emails[rq.i]
       IN  \E result \in VerifierResults(email) :
             LET called == [rq EXCEPT
                              !.calls = Append(@, VerifierCall(email,
                                                               rq.body.check_smtp,
                                                               rq.body.check_catch_all,
                                                               Some(result))),
                              !.events = Append(@, "verifier"),
                              !.results = Append(@, VerificationResponse(result))]
             IN  req' = [req EXCEPT ![r] =
                           IF rq.i = Len(rq.body.emails)
                           THEN Advance(called)
                           ELSE [called EXCEPT !.i = @ + 1]]
    /\ UNCHANGED <<api_keys, subscriptions, usage_logs, daily_usage, now>>

----------------------------------------------------------------------------
(* find_email *)

\* a variant without the early exit
SmtpConfirmed_NoEarlyExit(result) == FALSE

\* "if result.smtp_verified is True"
SmtpConfirmed(result) == result.smtp_verified = Some(TRUE)

\* a variant that compares with >= instead of >
KeepBest_GreaterOrEqual(best_result, result) ==
    IF best_result = None \/ result.confidence_score >= best_result[1].confidence_score
    THEN Some(result)
    ELSE best_result

\* "if best_result is None or result.confidence_score > best_result.confidence_score"
KeepBest(best_result, result) ==
    IF best_result = None \/ result.confidence_score > best_result[1].confidence_score
    THEN Some(result)
    ELSE best_result

(* "Generate patterns" *)
FindGenerate(r) ==
    /\ req[r].pc = "find_gen"
    /\ LET rq == req[r]
       IN  \E patterns \in PatternLists :
             req' = [req EXCEPT ![r] = Advance([rq EXCEPT !.patterns = patterns])]
    /\ UNCHANGED <<api_keys, subscriptions, usage_logs, daily_usage, now>>

(* one iteration of "for pattern_info in patterns" *)
FindIter(r) ==
    /\ req[r].pc = "find_loop"
    /\ LET rq == req[r]
           email == rq.patterns[rq.i].email
       IN  \E result \in VerifierResults(email) :
             LET called == [rq EXCEPT
                              !.calls = Append(@, VerifierCall(email, TRUE, TRUE,
                                                               Some(result))),
                              !.events = Append(@, "verifier")]
             IN  req' = [req EXCEPT ![r] =
                           IF SmtpConfirmed(result)
                           THEN Advance([called EXCEPT !.best_result = Some(result)])
                           ELSE LET kept == [called EXCEPT
                                               !.best_result = KeepBest(@, result)]
                                IN  IF rq.i = Len(rq.patterns)
                                    THEN Advance(kept)
                                    ELSE [kept EXCEPT !.i = @ + 1]]
    /\ UNCHANGED <<api_keys, subscriptions, usage_logs, daily_usage, now>>

(* after the loop: "if not best_result: raise HTTPException(404)" *)
FindCheck(r) ==
    /\ req[r].pc = "find_check"
    /\ LET rq == req[r]
       IN  req' = [req EXCEPT ![r] =
                     IF rq.best_result = None
                     THEN Raise(rq, HTTPException(404, "Could not find email"))
                     ELSE Advance(rq)]
    /\ UNCHANGED <<api_keys, subscriptions, usage_logs, daily_usage, now>>

----------------------------------------------------------------------------
(* get_usage *)

\* dict.get(key, default): the value of the column, or the default for a row without it
Get(row, key, default) == IF key \in DOMAIN row THEN row[key] ELSE default

\* a variant that reads the two counters of the row the other way round
UsageResponse_Swapped(data, sub) ==
    LET usage == IF data # <<>>
                 THEN data[1]
                 ELSE [verify_count |-> 0, find_count |-> 0, total_count |-> 0]
    IN  [plan |-> sub.plan_type,
         status |-> sub.status,
         today |-> [verifications |-> Get(usage, "find_count", 0),
                    finds |-> Get(usage, "verify_count", 0),
                    total |-> Get(usage, "total_count", 0)],
         limits |-> [daily_limit |-> IF sub.plan_type # "free" THEN "unlimited" ELSE 100,
                     rate_limit |-> "60 requests/minute"]]

\* the dict get_usage returns; daily_limit is the string 'unlimited' or the integer 100
UsageResponse(data, sub) ==
    LET usage == IF data # <<>>
                 THEN data[1]
                 ELSE [verify_count |-> 0, find_count |-> 0, total_count |-> 0]
    IN  [plan |-> sub.plan_type,
         status |-> sub.status,
         today |-> [verifications |-> Get(usage, "verify_count", 0),
                    finds |-> Get(usage, "find_count", 0),
                    total |-> Get(usage, "total_count", 0)],
         limits |-> [daily_limit |-> IF sub.plan_type # "free" THEN "unlimited" ELSE 100,
                     rate_limit |-> "60 requests/minute"]]

(* the select on daily_usage for today and the dict built from it *)
UsageRead(r) ==
    /\ req[r].pc = "usage_read"
    /\ LET rq == req[r]
           data == SelectDailyUsage(daily_usage, rq.auth[1].user_id, DateOf(now))
       IN  req' = [req EXCEPT ![r] =
                     Advance([rq EXCEPT !.response =
                                <<UsageResponse(data, rq.auth[1].subscription)>>])]
    /\ UNCHANGED <<api_keys, subscriptions, usage_logs, daily_usage, now>>

----------------------------------------------------------------------------
(* The Store when the first request of a behaviour arrives: either nothing *)
(* has been used yet, or user 1 has verified one email and user 2 has      *)
(* found one earlier on day 0, each with their active key.                 *)

FreshStore ==
    [api_keys |-> InitApiKeys, usage_logs |-> <<>>, daily_usage |-> <<>>]

UsedStore ==
    LET key1 == InitApiKeys[1]
        key2 == InitApiKeys[2]
        auth1 == AuthContext(key1, InitSubscriptions[1])
        auth2 == AuthContext(key2, InitSubscriptions[2])
    IN  [api_keys |-> UpdateLastUsed(UpdateLastUsed(InitApiKeys, key1.id, IsoTimestamp(0)),
                                     key2.id, IsoTimestamp(0)),
         usage_logs |-> << VerifyUsageLog(auth1), FindUsageLog(auth2) >>,
         daily_usage |-> IncrementDailyUsage(
                             IncrementDailyUsage(<<>>, VerifyIncrement(auth1), DateOf(0)),
                             FindIncrement(auth2), DateOf(0))]

InitStores == { FreshStore, UsedStore }

Init ==
    /\ \E store \in InitStores :
         /\ api_keys = store.api_keys
         /\ usage_logs = store.usage_logs
         /\ daily_usage = store.daily_usage
    /\ subscriptions = InitSubscriptions
    /\ now = 0
    /\ req = [ r \in Reqs |-> IdleReq ]

----------------------------------------------------------------------------
Next ==
    \/ Tick
    \/ \E r \in Reqs :
         \/ Start(r)
         \/ Root(r)
         \/ StoreFails(r)
         \/ AuthLookupKey(r)
         \/ AuthLookupSub(r)
         \/ AuthTouch(r)
         \/ VerifierFails(r)
         \/ LogUsage(r)
         \/ IncrementUsage(r)
         \/ VerifyCall(r)
         \/ BulkCheck(r)
         \/ BulkIter(r)
         \/ FindGenerate(r)
         \/ FindIter(r)
         \/ FindCheck(r)
         \/ UsageRead(r)

Spec == Init /\ [][Next]_vars

----------------------------------------------------------------------------
(* Vocabulary of the properties *)

\* the request has an endpoint that requires the credential
Authenticated(rq) == rq.endpoint \in Endpoints

\* verify_api_key has returned or raised
AuthDecided(rq) == Authenticated(rq) /\ rq.pc \notin AuthPcs

\* verify_api_key returned a context
AuthSucceeded(rq) == rq.auth # None

\* verify_api_key raised
AuthFailed(rq) == rq.pc = "done" /\ rq.failed_at \in AuthPcs

\* a call of the Store raised in verify_api_key
AuthStoreDown(rq) ==
    rq.failed_at \in AuthPcs /\ rq.raised # None /\ rq.raised[1].kind = "Exception"

\* the active key rows of a credential
ActiveKeysOf(x) ==
    { k \in Range(api_keys) : k.key_hash = Sha256(x) /\ k.is_active }

\* the subscription rows of the owners of the active keys of a credential
SubscriptionsOf(x) ==
    { sub \in Range(subscriptions) : \E k \in ActiveKeysOf(x) : sub.user_id = k.user_id }

\* the digest maps to an active key whose owner has a pro subscription that is
\* active or in trial
Authorized(x) ==
    \E sub \in SubscriptionsOf(x) :
        sub.plan_type = "pro" /\ sub.status \in {"active", "trial"}

\* the number of events of one kind in a sequence of events
Count(events, kind) == Cardinality({ j \in 1..Len(events) : events[j] = kind })

----------------------------------------------------------------------------
(* C1: with the Store reachable, verify_api_key returns a context if and   *)
(* only if the digest of the credential is that of an active key whose     *)
(* owner has a subscription with plan pro and status active or trial; the  *)
(* context is that key's and that subscription's; otherwise it fails with  *)
(* a 401 or a 403.                                                         *)
C1_AuthenticateIff ==
    \A r \in Reqs :
        LET rq == req[r]
        IN  (AuthDecided(rq) /\ ~AuthStoreDown(rq)) =>
              /\ AuthSucceeded(rq) <=> Authorized(rq.x_api_key)
              /\ AuthSucceeded(rq) =>
                   \E k \in ActiveKeysOf(rq.x_api_key), sub \in SubscriptionsOf(rq.x_api_key) :
                       /\ sub.user_id = k.user_id
                       /\ rq.auth[1] = [user_id |-> k.user_id, api_key_id |-> k.id,
                                        subscription |-> sub]
              /\ ~AuthSucceeded(rq) => AuthFailed(rq) /\ rq.status_code \in {401, 403}

\* a trial subscriber has been authenticated
C1_Witness ==
    \E r \in Reqs :
        /\ req[r].x_api_key = "lk_live_u2"
        /\ AuthSucceeded(req[r])
        /\ req[r].auth[1].subscription.status = "trial"

----------------------------------------------------------------------------
\* the error of the first check that fails for a credential, in the fixed order
FirstFailingCheck(x) ==
    IF ActiveKeysOf(x) = {}
    THEN <<401, "Invalid API key">>
    ELSE IF SubscriptionsOf(x) = {}
    THEN <<403, "No active subscription">>
    ELSE IF \E sub \in SubscriptionsOf(x) : sub.plan_type # "pro"
    THEN <<403, "API access requires Pro plan">>
    ELSE <<403, "Subscription not active">>

(* C2: when verify_api_key rejects a credential, the error is that of the  *)
(* first failing check in the order key, subscription, plan, status: 401   *)
(* only for a credential without active key, and the plan error, not the   *)
(* status error, for a subscription that is neither pro nor active.        *)
C2_FirstFailingCheck ==
    \A r \in Reqs :
        LET rq == req[r]
        IN  (AuthFailed(rq) /\ ~AuthStoreDown(rq)) =>
              /\ <<rq.status_code, rq.detail>> = FirstFailingCheck(rq.x_api_key)
              /\ rq.status_code = 401 <=> rq.failed_at = "auth_key"

\* a free, canceled subscription has been rejected for its plan
C2_Witness ==
    \E r \in Reqs :
        /\ AuthFailed(req[r])
        /\ req[r].x_api_key = "lk_live_u5"
        /\ req[r].status_code = 403
        /\ req[r].detail = "API access requires Pro plan"

----------------------------------------------------------------------------
(* C3: a Store failure in the key lookup or the subscription lookup of     *)
(* verify_api_key leaves it as a 500, never a 401 or 403; a 401 or 403     *)
(* raised inside verify_api_key leaves it unchanged, never as a 500.       *)
C3_StoreFailureDistinct ==
    \A r \in Reqs :
        LET rq == req[r]
        IN  (rq.failed_at \in AuthPcs /\ rq.raised # None) =>
              /\ (rq.raised[1].kind = "Exception" /\ rq.failed_at \in {"auth_key", "auth_sub"})
                   => rq.status_code = 500
              /\ rq.raised[1].kind = "HTTPException"
                   => /\ rq.raised[1].status_code \in {401, 403}
                      /\ rq.status_code = rq.raised[1].status_code
                      /\ rq.detail = rq.raised[1].detail

\* the subscription lookup has failed and the request has ended with a 500
C3_Witness ==
    \E r \in Reqs :
        /\ req[r].failed_at = "auth_sub"
        /\ req[r].raised # None
        /\ req[r].raised[1].kind = "Exception"
        /\ req[r].status_code = 500

----------------------------------------------------------------------------
(* C4: once the four checks of verify_api_key have passed, a failure of    *)
(* the update of last_used_at does not change the outcome: verify_api_key  *)
(* still returns the context.                                              *)
C4_TouchFailureIgnored ==
    \A r \in Reqs :
        LET rq == req[r]
        IN  (rq.subscription # None /\ rq.pc \notin AuthPcs) =>
              /\ AuthSucceeded(rq)
              /\ rq.auth[1] = AuthContext(rq.api_key_data[1], rq.subscription[1])
              /\ rq.failed_at \notin AuthPcs

----------------------------------------------------------------------------
(* C5: a rejected authentication writes nothing to the Store.  No step of  *)
(* verify_api_key that ends in a failure changes a table; a row of         *)
(* api_keys changes only by the last step of a verify_api_key that returns *)
(* a context, and then only last_used_at of the key of that context;       *)
(* usage_logs and daily_usage change only by a request that holds a        *)
(* context; subscriptions never change.                                    *)
C5_FailedAuthWritesNothing ==
    [][ /\ subscriptions' = subscriptions
        /\ \A r \in Reqs :
             /\ (req[r].pc \in AuthPcs /\ ~AuthSucceeded(req'[r])) =>
                   /\ api_keys' = api_keys
                   /\ usage_logs' = usage_logs
                   /\ daily_usage' = daily_usage
             /\ AuthFailed(req'[r]) =>
                   /\ ~AuthSucceeded(req'[r])
                   /\ req'[r].logged = <<>> /\ req'[r].rpc = <<>>
        /\ api_keys' # api_keys =>
             \E r \in Reqs :
                 /\ req[r].pc = "auth_touch"
                 /\ AuthSucceeded(req'[r])
                 /\ \A k \in DOMAIN api_keys :
                      IF api_keys[k].id = req'[r].auth[1].api_key_id
                      THEN api_keys'[k] = [api_keys[k] EXCEPT !.last_used_at = api_keys'[k].last_used_at]
                      ELSE api_keys'[k] = api_keys[k]
        /\ (usage_logs' # usage_logs \/ daily_usage' # daily_usage) =>
             \E r \in Reqs : AuthSucceeded(req[r]) /\ req[r].pc \in {"log", "incr"}
      ]_vars

\* a request has been rejected for its subscription after its key was found
C5_Witness ==
    \E r \in Reqs :
        /\ AuthFailed(req[r])
        /\ req[r].failed_at = "auth_sub"
        /\ req[r].status_code = 403
        /\ req[r].api_key_data # None

----------------------------------------------------------------------------
\* the place of an event in the order of a request
Rank(event) ==
    CASE event \in {"auth_ok", "auth_fail"} -> 0
      [] event = "verifier" -> 1
      [] event = "audit"    -> 2
      [] event = "incr"     -> 3
      [] event = "response" -> 4

\* the request made no Verifier call and no usage write
NoWork(rq) ==
    /\ Count(rq.events, "verifier") = 0
    /\ Count(rq.events, "audit") = 0
    /\ Count(rq.events, "incr") = 0
    /\ rq.calls = <<>> /\ rq.logged = <<>> /\ rq.rpc = <<>>

(* C6: in a request to /verify, /verify/bulk or /find the events come in   *)
(* the order: authentication decision, Verifier calls, audit append,       *)
(* counter increment, response, each but the Verifier calls at most once   *)
(* and all of them in a request that ends with a 200; a request whose      *)
(* authentication failed or whose batch was refused with a 400 makes no    *)
(* Verifier call and no usage write.                                       *)
C6_EventOrder ==
    \A r \in Reqs :
        LET rq == req[r]
            ev == rq.events
        IN  rq.endpoint \in {"verify", "bulk", "find"} =>
              /\ \A j, k \in 1..Len(ev) : j < k => Rank(ev[j]) <= Rank(ev[k])
              /\ ev # <<>> => ev[1] \in {"auth_ok", "auth_fail"}
              /\ Count(ev, "auth_ok") + Count(ev, "auth_fail") <= 1
              /\ Count(ev, "audit") <= 1
              /\ Count(ev, "incr") <= 1
              /\ Count(ev, "response") <= 1
              /\ rq.status_code = 200 =>
                   /\ Count(ev, "auth_ok") = 1
                   /\ Count(ev, "audit") = 1
                   /\ Count(ev, "incr") = 1
                   /\ ev[Len(ev)] = "response"
              /\ (Count(ev, "auth_fail") = 1 \/ rq.status_code \in {400, 401, 403}) => NoWork(rq)

\* a find has probed two candidates, recorded its usage and answered
C6_Witness ==
    \E r \in Reqs :
        /\ req[r].endpoint = "find"
        /\ req[r].events = <<"auth_ok", "verifier", "verifier", "audit", "incr", "response">>

----------------------------------------------------------------------------
Days == 0..DateOf(MaxNow)

\* the verify counter and the find counter of a user on a day; 0 without a row
VerifyCount(usage, u, d) ==
    LET rows == SelectDailyUsage(usage, u, d)
    IN  IF rows = <<>> THEN 0 ELSE rows[1].verify_count

FindCount(usage, u, d) ==
    LET rows == SelectDailyUsage(usage, u, d)
    IN  IF rows = <<>> THEN 0 ELSE rows[1].find_count

(* C7: a /verify that ends with a 200 has made exactly one Verifier call,  *)
(* for the email and with the check_smtp and check_catch_all of the body,  *)
(* has inserted exactly one usage_logs row (verify, email_count 1, success *)
(* true, the user and the key of its context) and has made exactly one     *)
(* increment; its insert adds that row and nothing else, and its increment *)
(* raises the verify counter of its user for the current day by 1 and      *)
(* changes no other counter, the find counters included.                   *)
C7_SingleVerifyUsage ==
    [][ \A r \in Reqs :
          LET rq == req[r]
              nx == req'[r]
          IN  rq.endpoint = "verify" /\ nx.endpoint = "verify" =>
                /\ (rq.pc # "done" /\ nx.pc = "done" /\ nx.status_code = 200) =>
                     /\ Len(nx.calls) = 1
                     /\ nx.calls[1].email = nx.body.email
                     /\ nx.calls[1].check_smtp = nx.body.check_smtp
                     /\ nx.calls[1].check_catch_all = nx.body.check_catch_all
                     /\ nx.calls[1].result # None
                     /\ nx.response = <<VerificationResponse(nx.calls[1].result[1])>>
                     /\ nx.logged = << [user_id |-> nx.auth[1].user_id,
                                        api_key_id |-> nx.auth[1].api_key_id,
                                        operation_type |-> "verify",
                                        email_count |-> 1,
                                        success |-> TRUE] >>
                     /\ Len(nx.rpc) = 1
                /\ Len(nx.logged) = Len(rq.logged) + 1 =>
                     /\ usage_logs' = Append(usage_logs, nx.logged[Len(nx.logged)])
                     /\ daily_usage' = daily_usage
                /\ Len(nx.rpc) = Len(rq.rpc) + 1 =>
                     /\ usage_logs' = usage_logs
                     /\ \A u \in Users, d \in Days :
                          /\ VerifyCount(daily_usage', u, d) =
                               VerifyCount(daily_usage, u, d)
                                 + (IF u = rq.auth[1].user_id /\ d = DateOf(now) THEN 1 ELSE 0)
                          /\ FindCount(daily_usage', u, d) = FindCount(daily_usage, u, d)
      ]_vars

\* a /verify with check_smtp off has ended with a 200 for a user who had a counter
C7_Witness ==
    \E r \in Reqs :
        /\ req[r].endpoint = "verify"
        /\ req[r].status_code = 200
        /\ req[r].body.check_smtp = FALSE
        /\ req[r].body.check_catch_all = TRUE
        /\ VerifyCount(daily_usage, req[r].auth[1].user_id, 0) = 2

----------------------------------------------------------------------------
(* C8: a /verify/bulk with more than 1000 emails ends with a 400 raised by *)
(* the length check, without any Verifier call, usage_logs insert or       *)
(* increment; a list of 1000 emails or fewer is never refused with a 400   *)
(* and goes on to the loop.                                                *)
C8_BulkLimit ==
    \A r \in Reqs :
        LET rq == req[r]
        IN  (rq.endpoint = "bulk" /\ AuthSucceeded(rq) /\ rq.pc # "bulk_check") =>
              /\ Len(rq.body.emails) > 1000 =>
                   /\ rq.pc = "done"
                   /\ rq.status_code = 400
                   /\ rq.failed_at = "bulk_check"
                   /\ NoWork(rq)
              /\ Len(rq.body.emails) <= 1000 =>
                   /\ rq.status_code # 400
                   /\ rq.failed_at # "bulk_check"

\* a list of 1001 emails has been refused
C8_Witness ==
    \E r \in Reqs :
        /\ req[r].endpoint = "bulk"
        /\ Len(req[r].body.emails) = 1001
        /\ req[r].status_code = 400

----------------------------------------------------------------------------
\* no call of the Verifier made by the request has raised
NoVerifierFailure(rq) == \A j \in 1..Len(rq.calls) : rq.calls[j].result # None

(* C9: while no Verifier call of a /verify/bulk has failed, the calls made *)
(* so far are for the first emails of the list, one call per email in the  *)
(* order of the list and with the options of the body, and the j-th result *)
(* is the response built from what the j-th call returned; a 200 returns   *)
(* the results of all the emails, as many as the list has.                 *)
C9_BulkOrdered ==
    \A r \in Reqs :
        LET rq == req[r]
        IN  (rq.endpoint = "bulk" /\ NoVerifierFailure(rq)) =>
              /\ Len(rq.calls) <= Len(rq.body.emails)
              /\ Len(rq.results) = Len(rq.calls)
              /\ \A j \in 1..Len(rq.calls) :
                   /\ rq.calls[j].email = rq.body.emails[j]
                   /\ rq.calls[j].check_smtp = rq.body.check_smtp
                   /\ rq.calls[j].check_catch_all = rq.body.check_catch_all
                   /\ rq.results[j] = VerificationResponse(rq.calls[j].result[1])
              /\ rq.status_code = 200 =>
                   /\ Len(rq.calls) = Len(rq.body.emails)
                   /\ rq.response = rq.results

\* a list with the same email twice has been answered with two different results
C9_Witness ==
    \E r \in Reqs :
        /\ req[r].endpoint = "bulk"
        /\ req[r].status_code = 200
        /\ req[r].body.emails = <<"a@x.com", "a@x.com">>
        /\ Len(req[r].response) = 2
        /\ req[r].response[1] # req[r].response[2]

----------------------------------------------------------------------------
(* C10: when the Verifier call for an email of a /verify/bulk raises, it   *)
(* is the last call of the request: the emails before it have been         *)
(* verified, none after it is, the request ends with a 500 and no list of  *)
(* results, and it inserts no usage_logs row and makes no increment.       *)
C10_BulkAbortsOnFailure ==
    \A r \in Reqs :
        LET rq == req[r]
        IN  rq.endpoint = "bulk" =>
              \A j \in 1..Len(rq.calls) :
                  rq.calls[j].result = None =>
                    /\ j = Len(rq.calls)
                    /\ \A k \in 1..(j - 1) :
                         /\ rq.calls[k].result # None
                         /\ rq.calls[k].email = rq.body.emails[k]
                    /\ rq.calls[j].email = rq.body.emails[j]
                    /\ rq.pc = "done"
                    /\ rq.status_code = 500
                    /\ rq.response = <<>>
                    /\ rq.logged = <<>> /\ rq.rpc = <<>>
                    /\ Count(rq.events, "audit") = 0 /\ Count(rq.events, "incr") = 0

\* the second of two emails has failed after the first was verified
C10_Witness ==
    \E r \in Reqs :
        /\ req[r].endpoint = "bulk"
        /\ Len(req[r].body.emails) = 2
        /\ Len(req[r].calls) = 2
        /\ req[r].calls[1].result # None
        /\ req[r].calls[2].result = None
        /\ req[r].status_code = 500


----------------------------------------------------------------------------
(* C11: a /verify/bulk over n emails that ends with a 200 has inserted     *)
(* exactly one usage_logs row (bulk_verify, email_count n, success true,   *)
(* the user and the key of its context) and has made exactly one           *)
(* increment; its insert adds that row and nothing else and its increment  *)
(* raises the verify counter of its user for the current day by n and      *)
(* changes no other counter; for the empty list it returns the empty list  *)
(* without any Verifier call and every counter keeps its value.            *)
C11_BulkUsage ==
    [][ \A r \in Reqs :
          LET rq == req[r]
              nx == req'[r]
              n == Len(rq.body.emails)
          IN  rq.endpoint = "bulk" /\ nx.endpoint = "bulk" =>
                /\ (rq.pc # "done" /\ nx.pc = "done" /\ nx.status_code = 200) =>
                     /\ n <= 1000
                     /\ Len(nx.response) = n
                     /\ Len(nx.calls) = n
                     /\ nx.logged = << [user_id |-> nx.auth[1].user_id,
                                        api_key_id |-> nx.auth[1].api_key_id,
                                        operation_type |-> "bulk_verify",
                                        email_count |-> n,
                                        success |-> TRUE] >>
                     /\ Len(nx.rpc) = 1
                     /\ n = 0 => nx.response = <<>> /\ nx.calls = <<>>
                /\ Len(nx.logged) = Len(rq.logged) + 1 =>
                     /\ usage_logs' = Append(usage_logs, nx.logged[Len(nx.logged)])
                     /\ daily_usage' = daily_usage
                /\ Len(nx.rpc) = Len(rq.rpc) + 1 =>
                     /\ usage_logs' = usage_logs
                     /\ \A u \in Users, d \in Days :
                          /\ VerifyCount(daily_usage', u, d) =
                               VerifyCount(daily_usage, u, d)
                                 + (IF u = rq.auth[1].user_id /\ d = DateOf(now) THEN n ELSE 0)
                          /\ FindCount(daily_usage', u, d) = FindCount(daily_usage, u, d)
      ]_vars

\* a list of two emails has ended with a 200 for a user whose counter was 1
C11_Witness ==
    \E r \in Reqs :
        /\ req[r].endpoint = "bulk"
        /\ req[r].status_code = 200
        /\ Len(req[r].body.emails) = 2
        /\ req[r].logged # <<>>
        /\ req[r].logged[1].email_count = 2
        /\ VerifyCount(daily_usage, req[r].auth[1].user_id, 0) = 3


----------------------------------------------------------------------------
\* the calls of the request whose result has smtp_verified = True
ConfirmedCalls(rq) ==
    { j \in 1..Len(rq.calls) :
        rq.calls[j].result # None /\ rq.calls[j].result[1].smtp_verified = Some(TRUE) }

(* C12: /find probes the candidates in the order of the generated list,    *)
(* each with check_smtp and check_catch_all on; a call whose result has    *)
(* smtp_verified = True is the last call of the request, so that the       *)
(* number of calls is the position of that candidate, its result is the    *)
(* one kept, whatever the scores of the candidates before it, and a 200    *)
(* returns it.                                                             *)
C12_FindEarlyExit ==
    \A r \in Reqs :
        LET rq == req[r]
        IN  rq.endpoint = "find" =>
              /\ Len(rq.calls) <= Len(rq.patterns)
              /\ \A j \in 1..Len(rq.calls) :
                   /\ rq.calls[j].email = rq.patterns[j].email
                   /\ rq.calls[j].check_smtp = TRUE
                   /\ rq.calls[j].check_catch_all = TRUE
              /\ \A j \in ConfirmedCalls(rq) :
                   /\ j = Len(rq.calls)
                   /\ \A k \in 1..(j - 1) : k \notin ConfirmedCalls(rq)
                   /\ rq.pc # "find_loop"
                   /\ rq.best_result = rq.calls[j].result
                   /\ rq.status_code = 200 =>
                        rq.response = <<VerificationResponse(rq.calls[j].result[1])>>

\* of three candidates the second is confirmed with a lower score than the first,
\* and is returned after two calls
C12_Witness ==
    \E r \in Reqs :
        /\ req[r].endpoint = "find"
        /\ req[r].status_code = 200
        /\ Len(req[r].patterns) = 3
        /\ Len(req[r].calls) = 2
        /\ req[r].calls[1].result[1].confidence_score = 90
        /\ req[r].calls[2].result[1].smtp_verified = Some(TRUE)
        /\ req[r].response[1].confidence_score = 80
        /\ req[r].response[1].email = req[r].patterns[2].email

----------------------------------------------------------------------------
\* the greatest confidence_score among the results of the calls of the request
MaxScore(rq) ==
    CHOOSE m \in { rq.calls[j].result[1].confidence_score : j \in 1..Len(rq.calls) } :
        \A j \in 1..Len(rq.calls) : rq.calls[j].result[1].confidence_score <= m

\* the first call whose result has the greatest confidence_score
FirstMax(rq) ==
    CHOOSE j \in 1..Len(rq.calls) :
        /\ rq.calls[j].result[1].confidence_score = MaxScore(rq)
        /\ \A k \in 1..(j - 1) : rq.calls[k].result[1].confidence_score < MaxScore(rq)

(* C13: a /find over a non-empty list of candidates of which no result has *)
(* smtp_verified = True (False and None alike) that ends with a 200 has    *)
(* probed every candidate exactly once and returns the result with the     *)
(* greatest confidence_score, and of several with that score the one of    *)
(* the earliest candidate.                                                 *)
C13_FindBestScore ==
    \A r \in Reqs :
        LET rq == req[r]
        IN  (/\ rq.endpoint = "find"
             /\ rq.status_code = 200
             /\ ConfirmedCalls(rq) = {}) =>
              /\ rq.patterns # <<>>
              /\ Len(rq.calls) = Len(rq.patterns)
              /\ \A j \in 1..Len(rq.calls) :
                   /\ rq.calls[j].result # None
                   /\ rq.calls[j].email = rq.patterns[j].email
              /\ rq.response = <<VerificationResponse(rq.calls[FirstMax(rq)].result[1])>>
              /\ rq.response[1].email = rq.patterns[FirstMax(rq)].email

\* of three unconfirmed candidates with scores 80, 90 and 90, one of them with
\* smtp_verified = None, the second is returned
C13_Witness ==
    \E r \in Reqs :
        /\ req[r].endpoint = "find"
        /\ req[r].status_code = 200
        /\ Len(req[r].calls) = 3
        /\ req[r].calls[1].result[1].confidence_score = 80
        /\ req[r].calls[2].result[1].confidence_score = 90
        /\ req[r].calls[3].result[1].confidence_score = 90
        /\ req[r].calls[2].result[1].smtp_verified = Some(FALSE)
        /\ req[r].calls[3].result[1].smtp_verified = None
        /\ req[r].response[1].email = req[r].patterns[2].email


----------------------------------------------------------------------------
(* C14: a /find whose generated list of candidates is empty ends with the  *)
(* 404 "Could not find email" raised by the check after the loop, which    *)
(* the handler passes on unchanged (not a 500), having made no Verifier    *)
(* call, no usage_logs insert and no increment; a /find whose list is not  *)
(* empty and none of whose Verifier calls failed has a best result at the  *)
(* check and never ends with a 404.                                        *)
C14_FindNotFound ==
    \A r \in Reqs :
        LET rq == req[r]
        IN  rq.endpoint = "find" =>
              /\ (rq.pc = "find_check" /\ rq.patterns = <<>>) => rq.best_result = None
              /\ (rq.pc = "done" /\ rq.failed_at = "find_check") =>
                   /\ rq.patterns = <<>>
                   /\ rq.status_code = 404
                   /\ rq.detail = "Could not find email"
                   /\ rq.raised = Some(HTTPException(404, "Could not find email"))
                   /\ rq.calls = <<>> /\ rq.logged = <<>> /\ rq.rpc = <<>>
                   /\ Count(rq.events, "verifier") = 0
                   /\ Count(rq.events, "audit") = 0
                   /\ Count(rq.events, "incr") = 0
              /\ rq.status_code = 404 => (rq.pc = "done" /\ rq.failed_at = "find_check")
              /\ (rq.patterns # <<>> /\ NoVerifierFailure(rq)) =>
                   /\ rq.status_code # 404
                   /\ rq.pc = "find_check" => rq.best_result # None
                   /\ rq.pc \in {"log", "incr"} => rq.best_result # None

\* a /find of an authenticated caller has ended with the 404 after an empty list
C14_Witness ==
    \E r \in Reqs :
        /\ req[r].endpoint = "find"
        /\ AuthSucceeded(req[r])
        /\ req[r].pc = "done"
        /\ req[r].failed_at = "find_check"
        /\ req[r].status_code = 404
        /\ req[r].patterns = <<>>

----------------------------------------------------------------------------
(* C15: a /find that ends with a 200 has inserted exactly one usage_logs   *)
(* row (find, email_count 1, success true, the user and the key of its     *)
(* context) and has made exactly one increment, however many candidates it *)
(* probed; its insert adds that row and nothing else, and its increment    *)
(* raises the find counter of its user for the current day by 1 and        *)
(* changes no other counter, the verify counters included.                 *)
C15_SingleFindUsage ==
    [][ \A r \in Reqs :
          LET rq == req[r]
              nx == req'[r]
          IN  rq.endpoint = "find" /\ nx.endpoint = "find" =>
                /\ (rq.pc # "done" /\ nx.pc = "done" /\ nx.status_code = 200) =>
                     /\ Len(nx.calls) \in 1..Len(nx.patterns)
                     /\ nx.logged = << [user_id |-> nx.auth[1].user_id,
                                        api_key_id |-> nx.auth[1].api_key_id,
                                        operation_type |-> "find",
                                        email_count |-> 1,
                                        success |-> TRUE] >>
                     /\ Len(nx.rpc) = 1
                     /\ Count(nx.events, "audit") = 1
                     /\ Count(nx.events, "incr") = 1
                /\ Len(nx.logged) = Len(rq.logged) + 1 =>
                     /\ usage_logs' = Append(usage_logs, nx.logged[Len(nx.logged)])
                     /\ daily_usage' = daily_usage
                /\ Len(nx.rpc) = Len(rq.rpc) + 1 =>
                     /\ usage_logs' = usage_logs
                     /\ \A u \in Users, d \in Days :
                          /\ FindCount(daily_usage', u, d) =
                               FindCount(daily_usage, u, d)
                                 + (IF u = rq.auth[1].user_id /\ d = DateOf(now) THEN 1 ELSE 0)
                          /\ VerifyCount(daily_usage', u, d) = VerifyCount(daily_usage, u, d)
      ]_vars

\* a /find that probed three candidates has ended with a 200 for a user who had a
\* verify counter of 1 and no find
C15_Witness ==
    \E r \in Reqs :
        /\ req[r].endpoint = "find"
        /\ req[r].status_code = 200
        /\ Len(req[r].calls) = 3
        /\ Len(req[r].logged) = 1
        /\ req[r].logged[1].email_count = 1
        /\ FindCount(daily_usage, req[r].auth[1].user_id, 0) = 1
        /\ VerifyCount(daily_usage, req[r].auth[1].user_id, 0) = 1

----------------------------------------------------------------------------
TotalCount(usage, u, d) ==
    LET rows == SelectDailyUsage(usage, u, d)
    IN  IF rows = <<>> THEN 0 ELSE rows[1].total_count

(* C16: the step of /usage that reads daily_usage returns with a 200 the   *)
(* plan and status of the caller's subscription and, as today's figures,   *)
(* the verify, find and total counters of the caller's row for the current *)
(* UTC day, or 0, 0 and 0 when there is no such row; a /usage inserts no   *)
(* usage_logs row, makes no increment and no Verifier call, and the step   *)
(* leaves every table as it was.                                           *)
C16_UsageQuery ==
    [][ \A r \in Reqs :
          LET rq == req[r]
              nx == req'[r]
          IN  rq.endpoint = "usage" /\ nx.endpoint = "usage" =>
                /\ nx.calls = <<>> /\ nx.logged = <<>> /\ nx.rpc = <<>>
                /\ usage_logs' = usage_logs
                /\ daily_usage' = daily_usage
                /\ (rq.pc = "usage_read" /\ nx.status_code = 200) =>
                     LET u == rq.auth[1].user_id
                         d == DateOf(now)
                     IN  /\ nx.pc = "done"
                         /\ Len(nx.response) = 1
                         /\ nx.response[1].plan = rq.auth[1].subscription.plan_type
                         /\ nx.response[1].status = rq.auth[1].subscription.status
                         /\ nx.response[1].today =
                              [verifications |-> VerifyCount(daily_usage, u, d),
                               finds |-> FindCount(daily_usage, u, d),
                               total |-> TotalCount(daily_usage, u, d)]
                         /\ SelectDailyUsage(daily_usage, u, d) = <<>> =>
                              nx.response[1].today =
                                [verifications |-> 0, finds |-> 0, total |-> 0]
                         /\ <<api_keys, subscriptions, now>> = <<api_keys', subscriptions', now'>>
      ]_vars

\* a /usage on day 1 of a user whose only row is of day 0 has returned zeros
C16_Witness ==
    \E r \in Reqs :
        /\ req[r].endpoint = "usage"
        /\ req[r].status_code = 200
        /\ req[r].response[1].today = [verifications |-> 0, finds |-> 0, total |-> 0]
        /\ VerifyCount(daily_usage, req[r].auth[1].user_id, 0) = 1
        /\ DateOf(now) = 1

\* a /usage of a user with a row for the current day has returned its counters
C16_WitnessRow ==
    \E r \in Reqs :
        /\ req[r].endpoint = "usage"
        /\ req[r].status_code = 200
        /\ req[r].response[1].today = [verifications |-> 1, finds |-> 0, total |-> 1]


----------------------------------------------------------------------------
(* C17: a /verify, /verify/bulk or /find whose Verifier work succeeded and *)
(* whose usage_logs insert or increment then raised still ends with a 200  *)
(* that carries the result.                                                *)
C17_UsageFailureTolerated ==
    \A r \in Reqs :
        LET rq == req[r]
        IN  (/\ rq.endpoint \in {"verify", "bulk", "find"}
             /\ rq.pc = "done"
             /\ rq.failed_at \in {"log", "incr"}) =>
              /\ rq.status_code = 200
              /\ rq.response = ResponseOf(rq)

----------------------------------------------------------------------------
(* C18: a finished request has one of the statuses 200, 400, 401, 403,     *)
(* 404, 500.  A 401 comes only from the key lookup finding no active key   *)
(* for the credential, a 403 only from the checks on the subscription of   *)
(* a caller with an active key who is not authorized, a 400 only from the  *)
(* length check of /verify/bulk on more than 1000 emails, a 404 only from  *)
(* the check of /find with no best result, and a 500 only from a call of   *)
(* the Store or of the Verifier that raised; an HTTPException raised in a  *)
(* handler leaves it with its own status and detail.                       *)
C18_StatusMapping ==
    \A r \in Reqs :
        LET rq == req[r]
        IN  rq.pc = "done" =>
              /\ rq.status_code \in {200, 400, 401, 403, 404, 500}
              /\ rq.status_code = 200 <=> rq.raised = None
              /\ rq.status_code = 401 =>
                   /\ rq.failed_at = "auth_key"
                   /\ ActiveKeysOf(rq.x_api_key) = {}
              /\ rq.status_code = 403 =>
                   /\ rq.failed_at = "auth_sub"
                   /\ ActiveKeysOf(rq.x_api_key) # {}
                   /\ ~Authorized(rq.x_api_key)
              /\ rq.status_code = 400 =>
                   /\ rq.endpoint = "bulk"
                   /\ rq.failed_at = "bulk_check"
                   /\ Len(rq.body.emails) > 1000
              /\ rq.status_code = 404 =>
                   /\ rq.endpoint = "find"
                   /\ rq.failed_at = "find_check"
                   /\ rq.best_result = None
              /\ rq.status_code = 500 =>
                   /\ rq.raised[1].kind = "Exception"
                   /\ rq.failed_at \in StorePcs \cup VerifierPcs
              /\ rq.raised # None =>
                   IF rq.raised[1].kind = "HTTPException"
                   THEN /\ rq.status_code = rq.raised[1].status_code
                        /\ rq.detail = rq.raised[1].detail
                        /\ rq.status_code \in {400, 401, 403, 404}
                   ELSE rq.status_code = 500

\* a /verify/bulk has been refused with the 400 of its length check
C18_Witness ==
    \E r \in Reqs :
        /\ req[r].endpoint = "bulk"
        /\ req[r].pc = "done"
        /\ req[r].raised = Some(HTTPException(400, "Maximum 1000 emails per request"))
        /\ req[r].status_code = 400

----------------------------------------------------------------------------
\* the sum of email_count over the usage_logs rows of a user with one of the operations
RECURSIVE AuditedItems(_, _, _)
AuditedItems(logs, u, ops) ==
    IF logs = <<>>
    THEN 0
    ELSE (IF Head(logs).user_id = u /\ Head(logs).operation_type \in ops
          THEN Head(logs).email_count
          ELSE 0) + AuditedItems(Tail(logs), u, ops)

\* the number of usage_logs rows of a user with the operation
RECURSIVE AuditedRows(_, _, _)
AuditedRows(logs, u, op) ==
    IF logs = <<>>
    THEN 0
    ELSE (IF Head(logs).user_id = u /\ Head(logs).operation_type = op THEN 1 ELSE 0)
           + AuditedRows(Tail(logs), u, op)

\* the verify counters and the find counters of a user, over all days
RECURSIVE VerifyTotal(_, _)
VerifyTotal(usage, u) ==
    IF usage = <<>>
    THEN 0
    ELSE (IF Head(usage).user_id = u THEN Head(usage).verify_count ELSE 0)
           + VerifyTotal(Tail(usage), u)

RECURSIVE FindTotal(_, _)
FindTotal(usage, u) ==
    IF usage = <<>>
    THEN 0
    ELSE (IF Head(usage).user_id = u THEN Head(usage).find_count ELSE 0)
           + FindTotal(Tail(usage), u)

\* the requests of a user that have inserted their usage_logs row and made no increment
Unbilled(u) ==
    { r \in DOMAIN req :
        req[r].logged # <<>> /\ req[r].rpc = <<>> /\ req[r].auth[1].user_id = u }

RECURSIVE UnbilledItems(_, _)
UnbilledItems(rs, ops) ==
    IF rs = {}
    THEN 0
    ELSE LET r == CHOOSE q \in rs : TRUE
         IN  (IF req[r].logged[1].operation_type \in ops
              THEN req[r].logged[1].email_count
              ELSE 0) + UnbilledItems(rs \ {r}, ops)

NoneInFlight == \A r \in DOMAIN req : req[r].pc \in {"idle", "done"}

(* C20 as claimed: whenever no request is in flight, the verify counters   *)
(* of each user add up to the email_count of the user's verify and         *)
(* bulk_verify rows of usage_logs and the find counters to the number of   *)
(* the user's find rows, also after a call of the Store has raised; every  *)
(* row of usage_logs has success true.                                     *)
C20_AuditMatchesCounters ==
    /\ \A j \in 1..Len(usage_logs) : usage_logs[j].success = TRUE
    /\ NoneInFlight =>
         \A u \in Users :
             /\ VerifyTotal(daily_usage, u) =
                  AuditedItems(usage_logs, u, {"verify", "bulk_verify"})
             /\ FindTotal(daily_usage, u) = AuditedRows(usage_logs, u, "find")

(* C20 as amended: the rows of usage_logs of each user account for the     *)
(* user's counters plus the items of the requests that inserted their row  *)
(* and made no increment, which, when no request is in flight, are the     *)
(* requests whose increment raised; so the counters never exceed what the  *)
(* rows account for, and equal it when no increment raised.  Every row of  *)
(* usage_logs has success true, also the row of a request that then ends   *)
(* with a 500.                                                             *)
C20_AuditCoversCounters ==
    /\ \A j \in 1..Len(usage_logs) : usage_logs[j].success = TRUE
    /\ \A u \in Users :
         /\ AuditedItems(usage_logs, u, {"verify", "bulk_verify"}) =
              VerifyTotal(daily_usage, u)
                + UnbilledItems(Unbilled(u), {"verify", "bulk_verify"})
         /\ AuditedRows(usage_logs, u, "find") =
              FindTotal(daily_usage, u) + UnbilledItems(Unbilled(u), {"find"})
         /\ VerifyTotal(daily_usage, u) <=
              AuditedItems(usage_logs, u, {"verify", "bulk_verify"})
         /\ FindTotal(daily_usage, u) <= AuditedRows(usage_logs, u, "find")
    /\ NoneInFlight =>
         \A u \in Users : \A r \in Unbilled(u) :
             req[r].pc = "done" /\ req[r].failed_at = "incr" /\ req[r].status_code = 500

\* the increment of a /verify/bulk of two emails has raised: two items logged and not
\* counted
C20_Witness ==
    \E r \in Reqs :
        /\ req[r].endpoint = "bulk"
        /\ req[r].pc = "done"
        /\ req[r].failed_at = "incr"
        /\ Len(req[r].body.emails) = 2
        /\ AuditedItems(usage_logs, req[r].auth[1].user_id, {"verify", "bulk_verify"}) = 3
        /\ VerifyTotal(daily_usage, req[r].auth[1].user_id) = 1


----------------------------------------------------------------------------
(* Concurrent requests.  The endpoint functions are coroutines of one      *)
(* server and the Store is shared: several requests are in flight at once  *)
(* and their Store calls interleave in any order, each call being one      *)
(* step.  The requests are those of one authorized user within one day;    *)
(* the Verifier answers every call with the same unconfirmed result and    *)
(* generates one candidate, as the usage writes do not read its answers.   *)

NConc == 2

ConcReqs == 1..NConc

ConcCredentials == { "lk_live_u1" }

ConcBodies(endpoint) ==
    CASE endpoint = "verify" -> { Body("a@x.com", <<>>, TRUE, TRUE, "", "", "") }
      [] endpoint = "bulk" -> { Body("", <<"a@x.com", "b@x.com">>, TRUE, TRUE, "", "", "") }
      [] endpoint = "find" -> { Body("", <<>>, TRUE, TRUE, "Ada", "Lovelace", "x.com") }

\* the answer of the Verifier to every call
QuietResult(email) == [email |-> email, smtp_verified |-> Some(FALSE), confidence_score |-> 80]

\* the Verifier has given the request only that answer and at most one candidate
Quiet(rq) ==
    /\ Len(rq.patterns) <= 1
    /\ \A j \in 1..Len(rq.calls) : rq.calls[j].result = Some(QuietResult(rq.calls[j].email))

(* a request arrives while others are in flight; it takes the first free slot *)
Arrive(r) ==
    /\ req[r].pc = "idle"
    /\ \A q \in ConcReqs : q < r => req[q].pc # "idle"
    /\ \E endpoint \in {"verify", "bulk", "find"}, x_api_key \in ConcCredentials :
         \E body \in ConcBodies(endpoint) :
           req' = [req EXCEPT ![r] =
                     [IdleReq EXCEPT !.pc = "auth_key",
                                     !.endpoint = endpoint,
                                     !.x_api_key = x_api_key,
                                     !.body = body]]
    /\ UNCHANGED <<api_keys, subscriptions, usage_logs, daily_usage, now>>

QuietVerifyCall(r) == VerifyCall(r) /\ Quiet(req'[r])

QuietBulkIter(r) == BulkIter(r) /\ Quiet(req'[r])

QuietFindGenerate(r) == FindGenerate(r) /\ Quiet(req'[r])

QuietFindIter(r) == FindIter(r) /\ Quiet(req'[r])

InitConc ==
    /\ \E store \in InitStores :
         /\ api_keys = store.api_keys
         /\ usage_logs = store.usage_logs
         /\ daily_usage = store.daily_usage
    /\ subscriptions = InitSubscriptions
    /\ now = 0
    /\ req = [ r \in ConcReqs |-> IdleReq ]

NextConc ==
    \E r \in ConcReqs :
        \/ Arrive(r)
        \/ StoreFails(r)
        \/ AuthLookupKey(r)
        \/ AuthLookupSub(r)
        \/ AuthTouch(r)
        \/ QuietVerifyCall(r)
        \/ BulkCheck(r)
        \/ QuietBulkIter(r)
        \/ QuietFindGenerate(r)
        \/ QuietFindIter(r)
        \/ FindCheck(r)
        \/ LogUsage(r)
        \/ IncrementUsage(r)

SpecConc == InitConc /\ [][NextConc]_vars

----------------------------------------------------------------------------
\* what a request is to add to the verify counter and to the find counter of its user
VerifyDelta(rq) ==
    CASE rq.endpoint = "verify" -> 1
      [] rq.endpoint = "bulk" -> Len(rq.body.emails)
      [] OTHER -> 0

FindDelta(rq) == IF rq.endpoint = "find" THEN 1 ELSE 0

\* the requests of a user that have made their increment
Billed(u) ==
    { r \in DOMAIN req : req[r].rpc # <<>> /\ req[r].auth[1].user_id = u }

RECURSIVE SumVerifyDelta(_)
SumVerifyDelta(rs) ==
    IF rs = {}
    THEN 0
    ELSE LET r == CHOOSE q \in rs : TRUE
         IN  VerifyDelta(req[r]) + SumVerifyDelta(rs \ {r})

RECURSIVE SumFindDelta(_)
SumFindDelta(rs) ==
    IF rs = {}
    THEN 0
    ELSE LET r == CHOOSE q \in rs : TRUE
         IN  FindDelta(req[r]) + SumFindDelta(rs \ {r})

\* the counters are those of the Store the requests found plus the deltas of the
\* requests that have made their increment
CountersAddUp ==
    \E store \in InitStores :
        /\ Len(usage_logs) =
             Len(store.usage_logs)
               + Cardinality({ r \in DOMAIN req : req[r].logged # <<>> })
        /\ SubSeq(usage_logs, 1, Len(store.usage_logs)) = store.usage_logs
        /\ \A u \in Users :
             /\ VerifyTotal(daily_usage, u) =
                  VerifyTotal(store.daily_usage, u) + SumVerifyDelta(Billed(u))
             /\ FindTotal(daily_usage, u) =
                  FindTotal(store.daily_usage, u) + SumFindDelta(Billed(u))
             /\ VerifyCount(daily_usage, u, DateOf(now)) = VerifyTotal(daily_usage, u)
             /\ FindCount(daily_usage, u, DateOf(now)) = FindTotal(daily_usage, u)

(* C19: with requests of the same user in flight at once on one day and    *)
(* the increment one atomic call of the Store, every step that makes an    *)
(* increment raises the counters of the request's user by the request's    *)
(* delta (1 verification for /verify, n for a /verify/bulk of n, 1 find    *)
(* for /find) on top of what the other requests have added, and no other   *)
(* step changes a counter; a request makes at most one increment, exactly  *)
(* one if it ends with a 200; so the counters are the initial ones plus    *)
(* the deltas of the requests that made their increment, and they never    *)
(* decrease or become negative.                                            *)
C19_NoLostUpdate ==
    [][ LET inc == { r \in DOMAIN req : Len(req'[r].rpc) > Len(req[r].rpc) }
        IN  /\ Cardinality(inc) <= 1
            /\ \A r \in DOMAIN req :
                 /\ Len(req'[r].rpc) <= 1
                 /\ req'[r].status_code = 200 =>
                      /\ Len(req'[r].rpc) = 1
                      /\ req'[r].rpc[1].p_verify_count = VerifyDelta(req'[r])
                      /\ req'[r].rpc[1].p_find_count = FindDelta(req'[r])
            /\ \A u \in Users, d \in Days :
                 LET mine == { r \in inc : req[r].auth[1].user_id = u /\ d = DateOf(now) }
                 IN  /\ VerifyCount(daily_usage', u, d) =
                          VerifyCount(daily_usage, u, d) + SumVerifyDelta(mine)
                     /\ FindCount(daily_usage', u, d) =
                          FindCount(daily_usage, u, d) + SumFindDelta(mine)
                     /\ VerifyCount(daily_usage', u, d) >= VerifyCount(daily_usage, u, d)
                     /\ FindCount(daily_usage', u, d) >= FindCount(daily_usage, u, d)
                     /\ VerifyCount(daily_usage, u, d) >= 0
                     /\ FindCount(daily_usage, u, d) >= 0
            /\ CountersAddUp'
      ]_vars

\* a /verify of user 1 has ended with a 200 while a /verify/bulk of two emails of
\* the same user, which inserted its usage_logs row first, has yet to make its
\* increment
C19_Witness ==
    \E r1 \in DOMAIN req, r2 \in DOMAIN req :
        /\ req[r1].endpoint = "verify" /\ req[r1].x_api_key = "lk_live_u1"
        /\ req[r2].endpoint = "bulk"   /\ req[r2].x_api_key = "lk_live_u1"
        /\ req[r1].status_code = 200
        /\ req[r2].pc = "incr"
        /\ usage_logs = req[r2].logged \o req[r1].logged
        /\ VerifyCount(daily_usage, 1, 0) = 1

\* both have ended with a 200, on top of the verification user 1 had
C19_WitnessFinal ==
    \E r1 \in DOMAIN req, r2 \in DOMAIN req :
        /\ req[r1].endpoint = "verify" /\ req[r1].x_api_key = "lk_live_u1"
        /\ req[r2].endpoint = "bulk"   /\ req[r2].x_api_key = "lk_live_u1"
        /\ req[r1].status_code = 200
        /\ req[r2].status_code = 200
        /\ VerifyCount(daily_usage, 1, 0) = 4

====
